---- MODULE Spec2Model ----
(***************************************************************************)
(* The reconnecting WebSocket client of frontend/src/services/websocket.ts *)
(* (class WebSocketClient) together with the part of the browser it talks  *)
(* to: the WebSocket objects it creates, the timers it sets with           *)
(* setTimeout and the intervals it sets with setInterval.                  *)
(*                                                                         *)
(* Every method of the class is an operator from a record of the object's  *)
(* fields and of the browser's state to the record after the call; the     *)
(* actions apply these operators to the current state.  JavaScript runs    *)
(* each callback to completion, so one action is one call or one event.    *)
(***************************************************************************)
EXTENDS Integers, Sequences, FiniteSets, TLC

(* ------------------------------ bounds --------------------------------- *)
\* WebSocket objects this.ws no longer holds that still have events to deliver
MaxStale == 1
\* pending setTimeout timers whose handle reconnectTimer no longer holds
MaxOrphanTimers == 1
\* running setInterval timers whose handle pingTimer no longer holds
MaxOrphanIntervals == 1

(* ------------------------- program constants --------------------------- *)
maxReconnectAttempts == 5
reconnectDelay == 2000
\* the status code handleClose compares the close event's code with
NormalClosure == 1000
\* null, the value of ws, reconnectTimer and pingTimer when unset
NULL == "null"

\* Codes a CloseEvent carries: 1000 normal, 1001 going away, 1005 no status
\* received (the answer to close() without a code), 1006 abnormal closure.
CloseCodes == {1000, 1001, 1005, 1006}

\* The callbacks a consumer registers: one that returns, one that throws.
\* A callback is what it does to the caller (return or throw).
Handlers == {"quiet", "thrower"}
Throws(h) == h = "thrower"

\* The callbacks useWebSocket registers, one with each registry: they set the
\* hook's state and call the consumer's callback, which returns.
AdapterHandler == "adapter"

\* Objects and handles are identified by what can still happen to them, so
\* that two heaps that differ in the names of their objects are one state.
\*
\* A WebSocket object is the state the browser has it in:
\*   CONNECTING  readyState 0
\*   OPEN        readyState 1
\*   CLOSING     readyState 2, close() was called on an open socket
\*   ABORTING    readyState 2, close() was called on a connecting socket:
\*               the connection is failed (error event, then close 1006)
\*   FAILED      readyState 3, the error event of a failed connection was
\*               delivered and its close event (1006) is still to come
\*   CLOSED      readyState 3, the close event was delivered
\* Every socket the client creates has its four callbacks bound to the client
\* (connect, lines 46-49) and keeps them: nothing ever unbinds them.
PendingStates == {"CONNECTING", "OPEN", "CLOSING", "ABORTING", "FAILED"}
SocketStates == PendingStates \cup {"CLOSED"}

\* A socket event is addressed to the socket this.ws holds ("current") or to
\* one of the stale sockets, named by its state.
Sockets == {"current"} \cup PendingStates

\* The callbacks registered for message topics: the two above and a second one
\* that returns.
TopicHandlers == Handlers \cup {"logger"}

\* The callbacks that call back into the client while a message is being
\* dispatched: one that calls the function its own on() returned, and one
\* that calls the function the on() of "logger" returned, each for the topic
\* whose handlers are being called.
ReentrantHandlers == {"once", "canceller"}

\* The keys of the topic registry: a message type and the wildcard.
Wildcard == "*"
Topics == {"threat_update", Wildcard}

\* JSON.stringify(message): the text of the message
JSONstringify(message) == <<"json", message>>

\* JSON.parse(data): the message the text encodes; it throws on a text that
\* is not JSON
IsJSON(data) == data[1] = "json"
JSONparse(data) == [type |-> data[2]]

\* The types of the inbound messages: one that has a topic, one that has
\* none, and the wildcard's own name.  The inbound frames: the texts of such
\* messages, and a text that is not JSON.
MessageTypes == {"threat_update", "sitrep", Wildcard}
Frames == {JSONstringify(t) : t \in MessageTypes} \cup {<<"text", "malformed">>}

\* What the caller passes to send()
Payloads == {"message", "get_stats"}

\* A timer handle is PENDING (the timer is set and has neither fired nor been
\* cleared) or FIRED (the timer fired; the field still holds its handle).
\* An interval handle is ACTIVE until it is cleared.

VARIABLES
    \* fields of WebSocketClient: ws is the socket this.ws holds
    ws, reconnectAttempts, reconnectTimer, pingTimer, disconnectionHandlers,
    \* handlers: the topics that have an entry, each with its handlers in
    \* insertion order
    handlers, connectionHandlers, errorHandlers,
    \* the useWebSocket hook that made the client, if one did: phase is none
    \* (the client was made without the hook), idle (the effect has not run),
    \* active (the effect has run), cleaned (the cleanup has run), replaced
    \* (the cleanup has run and the effect has run again, making another
    \* client: the variables go on describing the client of the first run);
    \* autoConnect is the option; isConnected and lastMessage are the state
    \* the hook returns
    adapter,
    \* the browser: whether new WebSocket(this.url) succeeds; the bag of the
    \* sockets the client created, no longer holds, and that have events left;
    \* the number of pending timers and of running intervals whose handles
    \* the client overwrote
    urlOk, stale, orphanTimers, orphanIntervals,
    \* history: the last call or event and what it did
    lastOp, torn, run, manual,
    \* resumed: see ResumedAfter
    resumed,
    \* a second client, wsThreats, with the browser's share of it: a record
    \* of the fields above
    wsThreats

clientVars == <<ws, reconnectAttempts, reconnectTimer, pingTimer, disconnectionHandlers,
                handlers, connectionHandlers, errorHandlers>>
browserVars == <<urlOk, stale, orphanTimers, orphanIntervals>>
adapterVars == <<adapter>>
vars == <<ws, reconnectAttempts, reconnectTimer, pingTimer, disconnectionHandlers,
          handlers, connectionHandlers, errorHandlers, adapter, urlOk, stale, orphanTimers, orphanIntervals, lastOp, torn, run, manual, resumed, wsThreats>>

(* ------------------------------ helpers -------------------------------- *)
Remove(seq, h) == SelectSeq(seq, LAMBDA x : x # h)

\* Set.prototype.add: insertion order, adding a member again changes nothing
SetAdd(seq, h) == IF \E i \in 1..Len(seq) : seq[i] = h THEN seq ELSE Append(seq, h)

\* Set.prototype.forEach(handler => handler()): the first handler that throws
\* ends the iteration and the exception leaves forEach.
ForEachThrows(seq) == \E i \in 1..Len(seq) : Throws(seq[i])

\* The handlers forEach calls, each with the registry it is called from: all
\* of them, or those up to the first one that throws.
FirstThrow(seq) ==
    IF ForEachThrows(seq)
    THEN CHOOSE i \in 1..Len(seq) : Throws(seq[i]) /\ \A j \in 1..(i - 1) : ~Throws(seq[j])
    ELSE Len(seq)
Invoked(registry, seq) == [i \in 1..FirstThrow(seq) |-> <<registry, seq[i]>>]

\* Map: has, get of an absent key (undefined, no handlers), set, delete
NoHandlers == [k \in {} |-> <<>>]
MapHas(m, k) == k \in DOMAIN m
MapGet(m, k) == IF k \in DOMAIN m THEN m[k] ELSE <<>>
MapSet(m, k, v) == [j \in DOMAIN m \cup {k} |-> IF j = k THEN v ELSE m[j]]
MapDelete(m, k) == [j \in DOMAIN m \ {k} |-> m[j]]

NoStale == [st \in PendingStates |-> 0]
StaleCount(b) == b["CONNECTING"] + b["OPEN"] + b["CLOSING"] + b["ABORTING"] + b["FAILED"]

\* The state a call works on: the fields, the browser, and what the call has
\* done so far (threw: an exception left it; delay: the delay it passed to
\* setTimeout, 0 if it set none; created: it constructed a WebSocket; calls:
\* the handlers it invoked, in order; written: what it passed to ws.send).
Cur ==
    [ws |-> ws, reconnectAttempts |-> reconnectAttempts,
     reconnectTimer |-> reconnectTimer, pingTimer |-> pingTimer,
     disconnectionHandlers |-> disconnectionHandlers,
     handlers |-> handlers, connectionHandlers |-> connectionHandlers,
     errorHandlers |-> errorHandlers, adapter |-> adapter,
     stale |-> stale, orphanTimers |-> orphanTimers,
     orphanIntervals |-> orphanIntervals,
     threw |-> FALSE, delay |-> 0, created |-> FALSE, calls |-> <<>>,
     written |-> <<>>]

\* The client drops its reference to a socket in state st: the socket stays
\* with the browser for as long as it has events to deliver.
Drop(b, st) == IF st \in PendingStates THEN [b EXCEPT ![st] = @ + 1] ELSE b

\* The state of socket s, and the state after s moves to state st.
StateOf(c, s) == IF s = "current" THEN c.ws ELSE s
HasSocket(c, s) == IF s = "current" THEN c.ws \in PendingStates ELSE c.stale[s] > 0
Move(c, s, st) ==
    IF s = "current"
    THEN [c EXCEPT !.ws = st]
    ELSE [c EXCEPT !.stale = Drop([@ EXCEPT ![s] = @ - 1], st)]

(* ------------------------ WebSocketClient methods ---------------------- *)
\* scheduleReconnect with the delay computed from the incremented counter
\* itself: reconnectDelay * 2^attempts
scheduleReconnect_DelayFromAttempts(c) ==
    IF c.reconnectAttempts >= maxReconnectAttempts
    THEN c
    ELSE LET n == c.reconnectAttempts + 1
             delay == reconnectDelay * (2 ^ n)
         IN  [c EXCEPT !.reconnectAttempts = n,
                       !.orphanTimers = IF c.reconnectTimer = "PENDING" THEN @ + 1 ELSE @,
                       !.reconnectTimer = "PENDING",
                       !.delay = delay]

\* scheduleReconnect with the ceiling tested by > instead of >=
scheduleReconnect_CeilingOffByOne(c) ==
    IF c.reconnectAttempts > maxReconnectAttempts
    THEN c
    ELSE LET n == c.reconnectAttempts + 1
             delay == reconnectDelay * (2 ^ (n - 1))
         IN  [c EXCEPT !.reconnectAttempts = n,
                       !.orphanTimers = IF c.reconnectTimer = "PENDING" THEN @ + 1 ELSE @,
                       !.reconnectTimer = "PENDING",
                       !.delay = delay]

\* scheduleReconnect that starts over when the ceiling is reached
scheduleReconnect_ResetsAtCeiling(c) ==
    IF c.reconnectAttempts >= maxReconnectAttempts
    THEN [c EXCEPT !.reconnectAttempts = 0]
    ELSE LET n == c.reconnectAttempts + 1
             delay == reconnectDelay * (2 ^ (n - 1))
         IN  [c EXCEPT !.reconnectAttempts = n,
                       !.orphanTimers = IF c.reconnectTimer = "PENDING" THEN @ + 1 ELSE @,
                       !.reconnectTimer = "PENDING",
                       !.delay = delay]

\* this.reconnectTimer = setTimeout(...) overwrites the handle the field held:
\* if that timer is still pending, nothing can clear it any more.
scheduleReconnect(c) ==
    IF c.reconnectAttempts >= maxReconnectAttempts
    THEN c
    ELSE LET n == c.reconnectAttempts + 1
             delay == reconnectDelay * (2 ^ (n - 1))
         IN  [c EXCEPT !.reconnectAttempts = n,
                       !.orphanTimers = IF c.reconnectTimer = "PENDING" THEN @ + 1 ELSE @,
                       !.reconnectTimer = "PENDING",
                       !.delay = delay]

\* What the hook's callbacks do when forEach has invoked them: the connect
\* callback sets isConnected, the disconnect callback clears it, the wildcard
\* callback stores the message.
Mirrored(c, message) ==
    LET inv(registry) == \E i \in 1..Len(c.calls) : c.calls[i] = <<registry, AdapterHandler>>
    IN  [c EXCEPT !.adapter =
            [@ EXCEPT !.isConnected = IF inv("connect") THEN TRUE
                                      ELSE IF inv("disconnect") THEN FALSE
                                      ELSE @,
                      !.lastMessage = IF inv("type") \/ inv(Wildcard) THEN message ELSE @]]

\* connect without the test of readyState
connect_NoOpenCheck(c) ==
    IF urlOk
    THEN [c EXCEPT !.stale = Drop(@, c.ws), !.ws = "CONNECTING", !.created = TRUE]
    ELSE scheduleReconnect(c)

\* connect without the try/catch around the constructor
connect_NoCatch(c) ==
    IF c.ws = "OPEN"
    THEN c
    ELSE IF urlOk
         THEN [c EXCEPT !.stale = Drop(@, c.ws), !.ws = "CONNECTING", !.created = TRUE]
         ELSE [c EXCEPT !.threw = TRUE]

\* this.ws = new WebSocket(this.url) overwrites the socket the field held.
connect(c) ==
    IF c.ws = "OPEN"
    THEN c
    ELSE IF urlOk
         THEN [c EXCEPT !.stale = Drop(@, c.ws), !.ws = "CONNECTING", !.created = TRUE]
         ELSE scheduleReconnect(c)

\* WebSocket.close(): starts the closing handshake of an open socket, fails a
\* connecting one, and does nothing to a socket already closing or closed.
SocketCloseCall(st) ==
    CASE st = "OPEN" -> "CLOSING"
      [] st = "CONNECTING" -> "ABORTING"
      [] OTHER -> st

\* disconnect without the test of this.ws: this.ws.close() on null throws and
\* the statements after it do not run
disconnect_NoNullCheck(c) ==
    LET c1 == IF c.reconnectTimer # NULL
              THEN [c EXCEPT !.reconnectTimer = NULL]
              ELSE c
        c2 == IF c1.pingTimer # NULL
              THEN [c1 EXCEPT !.pingTimer = NULL]
              ELSE c1
    IN  IF c2.ws = NULL
        THEN [c2 EXCEPT !.threw = TRUE]
        ELSE [c2 EXCEPT !.stale = Drop(@, SocketCloseCall(c2.ws)), !.ws = NULL,
                        !.reconnectAttempts = 0]

\* clearTimeout of a handle whose timer already fired does nothing.
disconnect(c) ==
    LET c1 == IF c.reconnectTimer # NULL
              THEN [c EXCEPT !.reconnectTimer = NULL]
              ELSE c
        c2 == IF c1.pingTimer # NULL
              THEN [c1 EXCEPT !.pingTimer = NULL]
              ELSE c1
        c3 == IF c2.ws # NULL
              THEN [c2 EXCEPT !.stale = Drop(@, SocketCloseCall(c2.ws)), !.ws = NULL]
              ELSE c2
    IN  [c3 EXCEPT !.reconnectAttempts = 0]

\* send without the test of readyState: this.ws.send on null throws, and
\* WebSocket.send throws on a connecting socket and discards on a closing or
\* closed one
send_NoCheck(c, message) ==
    CASE c.ws = "OPEN" -> [c EXCEPT !.written = Append(@, JSONstringify(message))]
      [] c.ws \in {NULL, "CONNECTING"} -> [c EXCEPT !.threw = TRUE]
      [] OTHER -> c

send(c, message) ==
    IF c.ws = "OPEN"
    THEN [c EXCEPT !.written = Append(@, JSONstringify(message))]
    ELSE c

\* isConnected that tests this.ws only
isConnected_AnySocket(c) == c.ws # NULL

isConnected(c) == c.ws = "OPEN"

\* the function startPingPong passes to setInterval
pingCallback(c) ==
    IF isConnected(c) THEN send(c, "ping") ELSE c

\* on with a list in place of the Set
on_AppendsAlways(c, type, handler) ==
    [c EXCEPT !.handlers = MapSet(@, type, Append(MapGet(@, type), handler))]

on(c, type, handler) ==
    LET c1 == IF ~MapHas(c.handlers, type)
              THEN [c EXCEPT !.handlers = MapSet(@, type, <<>>)]
              ELSE c
    IN  [c1 EXCEPT !.handlers = MapSet(@, type, SetAdd(MapGet(@, type), handler))]

\* the unsubscribe function that deletes the topic's entry
unsubscribeFn_DeletesTopic(c, type, handler) ==
    IF MapHas(c.handlers, type)
    THEN [c EXCEPT !.handlers = MapDelete(@, type)]
    ELSE c

\* the unsubscribe function that deletes nothing
unsubscribeFn_KeepsHandler(c, type, handler) == c

\* the unsubscribe function without the test of handlers.size
unsubscribeFn_NoPrune(c, type, handler) ==
    IF MapHas(c.handlers, type)
    THEN [c EXCEPT !.handlers = MapSet(@, type, Remove(MapGet(@, type), handler))]
    ELSE c

\* the function on(type, handler) returns: it holds type and handler, and
\* nothing that tells one call of on(type, handler) from another
unsubscribeFn(c, type, handler) ==
    IF MapHas(c.handlers, type)
    THEN LET rest == Remove(MapGet(c.handlers, type), handler)
         IN  IF Len(rest) = 0
             THEN [c EXCEPT !.handlers = MapDelete(@, type)]
             ELSE [c EXCEPT !.handlers = MapSet(@, type, rest)]
    ELSE c

onConnect(c, handler) == [c EXCEPT !.connectionHandlers = SetAdd(@, handler)]
onConnectFn(c, handler) == [c EXCEPT !.connectionHandlers = Remove(@, handler)]
onDisconnect(c, handler) == [c EXCEPT !.disconnectionHandlers = SetAdd(@, handler)]
onDisconnectFn(c, handler) == [c EXCEPT !.disconnectionHandlers = Remove(@, handler)]
onError(c, handler) == [c EXCEPT !.errorHandlers = SetAdd(@, handler)]
onErrorFn(c, handler) == [c EXCEPT !.errorHandlers = Remove(@, handler)]

\* handleMessage that calls the wildcard handlers first
handleMessage_WildcardFirst(c, data) ==
    IF ~IsJSON(data)
    THEN c
    ELSE LET message == JSONparse(data)
             typed == MapGet(c.handlers, message.type)
             wild == MapGet(c.handlers, Wildcard)
         IN  [c EXCEPT !.calls =
                 IF ForEachThrows(wild)
                 THEN Invoked(Wildcard, wild)
                 ELSE Invoked(Wildcard, wild) \o Invoked("type", typed)]

\* handleMessage without the try/catch
handleMessage_NoCatch(c, data) ==
    IF ~IsJSON(data)
    THEN [c EXCEPT !.threw = TRUE]
    ELSE LET message == JSONparse(data)
             typed == MapGet(c.handlers, message.type)
             wild == MapGet(c.handlers, Wildcard)
         IN  IF ForEachThrows(typed)
             THEN [c EXCEPT !.calls = Invoked("type", typed), !.threw = TRUE]
             ELSE [c EXCEPT !.calls = Invoked("type", typed) \o Invoked(Wildcard, wild),
                            !.threw = ForEachThrows(wild)]

\* handleMessage that holds a message back until the next one arrives
handleMessage_Deferred(c, data) ==
    IF ~IsJSON(data) \/ lastOp.op # "message" \/ lastOp.arg = "malformed"
    THEN c
    ELSE LET typed == MapGet(c.handlers, lastOp.arg)
             wild == MapGet(c.handlers, Wildcard)
         IN  [c EXCEPT !.calls =
                 IF ForEachThrows(typed)
                 THEN Invoked("type", typed)
                 ELSE Invoked("type", typed) \o Invoked(Wildcard, wild)]

\* handler(message), called from the Set of topic type: what the handler does
\* to the client before it returns
Call(c, type, handler) ==
    CASE handler = "once" -> unsubscribeFn(c, type, "once")
      [] handler = "canceller" -> unsubscribeFn(c, type, "logger")
      [] OTHER -> c

\* Set.prototype.forEach(handler => handler(message)) on the Set of topic
\* type: it visits the members in insertion order, each once; a member
\* deleted before its visit is not visited, and the first handler that throws
\* ends the iteration.  The Set is the one the registry holds for the topic
\* until it is emptied, and it stays empty then.
RECURSIVE forEach(_, _, _, _)
forEach(c, type, registry, visited) ==
    LET rest == SelectSeq(MapGet(c.handlers, type), LAMBDA h : h \notin visited)
    IN  IF Len(rest) = 0
        THEN c
        ELSE LET handler == Head(rest)
                 c1 == [c EXCEPT !.calls = Append(@, <<registry, handler>>)]
             IN  IF Throws(handler)
                 THEN [c1 EXCEPT !.threw = TRUE]
                 ELSE forEach(Call(c1, type, handler), type, registry,
                              visited \cup {handler})

\* handleMessage that calls the handlers each Set held when the message
\* arrived
handleMessage_Snapshot(c, data) ==
    IF ~IsJSON(data)
    THEN c
    ELSE LET message == JSONparse(data)
             typed == MapGet(c.handlers, message.type)
             wild == MapGet(c.handlers, Wildcard)
             c1 == forEach(c, message.type, "type", {})
             c2 == IF c1.threw THEN c1 ELSE forEach(c1, Wildcard, Wildcard, {})
         IN  Mirrored([c2 EXCEPT !.threw = FALSE,
                                 !.calls =
                                    IF ForEachThrows(typed) THEN Invoked("type", typed)
                                    ELSE Invoked("type", typed) \o Invoked(Wildcard, wild)],
                      message.type)

\* One try/catch holds the parse and both forEach: an exception of JSON.parse
\* or of a handler ends the dispatch and is logged.  calls tells the handlers
\* of message.type from those of the wildcard.  The wildcard's Set is looked
\* up when the handlers of message.type have been called.
handleMessage(c, data) ==
    IF ~IsJSON(data)
    THEN c
    ELSE LET message == JSONparse(data)
             c1 == forEach(c, message.type, "type", {})
             c2 == IF c1.threw THEN c1 ELSE forEach(c1, Wildcard, Wildcard, {})
         IN  Mirrored([c2 EXCEPT !.threw = FALSE], message.type)

(* ------------------------- the useWebSocket hook ----------------------- *)
\* the effect that calls connect() whatever autoConnect is
effect_IgnoresAutoConnect(c) ==
    connect(on(onError(onDisconnect(onConnect(c, AdapterHandler), AdapterHandler),
                       AdapterHandler), Wildcard, AdapterHandler))

\* The effect, run on a client just constructed: it registers the four
\* callbacks and calls connect() if autoConnect is set.
effect(c) ==
    LET c4 == on(onError(onDisconnect(onConnect(c, AdapterHandler), AdapterHandler),
                         AdapterHandler), Wildcard, AdapterHandler)
    IN  IF c.adapter.autoConnect THEN connect(c4) ELSE c4

\* the cleanup that does not call unsubMessage
cleanup_KeepsMessageSub(c) ==
    disconnect(onErrorFn(onDisconnectFn(onConnectFn(c, AdapterHandler), AdapterHandler),
                         AdapterHandler))

\* The function the effect returns: the four unsubscribe functions, then
\* disconnect().
cleanup(c) ==
    disconnect(unsubscribeFn(onErrorFn(onDisconnectFn(onConnectFn(c, AdapterHandler),
                                                      AdapterHandler),
                                       AdapterHandler), Wildcard, AdapterHandler))

\* this.pingTimer = setInterval(...) overwrites the handle the field held.
startPingPong(c) ==
    [c EXCEPT !.orphanIntervals = IF c.pingTimer = "ACTIVE" THEN @ + 1 ELSE @,
              !.pingTimer = "ACTIVE"]

handleOpen(c) ==
    LET c1 == startPingPong([c EXCEPT !.reconnectAttempts = 0])
    IN  Mirrored([c1 EXCEPT !.calls = Invoked("connect", c1.connectionHandlers),
                            !.threw = ForEachThrows(c1.connectionHandlers)], NULL)

\* handleClose that does not notify the disconnect handlers
handleClose_SkipsHandlers(c, code) ==
    LET c1 == IF c.pingTimer # NULL
              THEN [c EXCEPT !.pingTimer = NULL]
              ELSE c
    IN  IF code # NormalClosure
        THEN scheduleReconnect(c1)
        ELSE c1

\* handleClose without the test of event.code
handleClose_IgnoresCode(c, code) ==
    LET c1 == IF c.pingTimer # NULL
              THEN [c EXCEPT !.pingTimer = NULL]
              ELSE c
        c2 == [c1 EXCEPT !.calls = Invoked("disconnect", c1.disconnectionHandlers)]
    IN  IF ForEachThrows(c2.disconnectionHandlers)
        THEN [c2 EXCEPT !.threw = TRUE]
        ELSE scheduleReconnect(c2)

handleClose(c, code) ==
    LET c1 == IF c.pingTimer # NULL
              THEN [c EXCEPT !.pingTimer = NULL]
              ELSE c
        c2 == Mirrored([c1 EXCEPT !.calls = Invoked("disconnect", c1.disconnectionHandlers)],
                       NULL)
    IN  IF ForEachThrows(c2.disconnectionHandlers)
        THEN [c2 EXCEPT !.threw = TRUE]
        ELSE IF code # NormalClosure
             THEN scheduleReconnect(c2)
             ELSE c2

\* handleError that starts the reconnection itself
handleError_Reconnects(c) ==
    scheduleReconnect([c EXCEPT !.calls = Invoked("error", c.errorHandlers),
                                !.threw = ForEachThrows(c.errorHandlers)])

handleError(c) ==
    [c EXCEPT !.calls = Invoked("error", c.errorHandlers),
              !.threw = ForEachThrows(c.errorHandlers)]

(* ------------------------------ actions -------------------------------- *)
Commit(r) ==
    /\ ws' = r.ws
    /\ reconnectAttempts' = r.reconnectAttempts
    /\ reconnectTimer' = r.reconnectTimer
    /\ pingTimer' = r.pingTimer
    /\ disconnectionHandlers' = r.disconnectionHandlers
    /\ handlers' = r.handlers
    /\ connectionHandlers' = r.connectionHandlers
    /\ errorHandlers' = r.errorHandlers
    /\ adapter' = r.adapter
    /\ stale' = r.stale
    /\ orphanTimers' = r.orphanTimers
    /\ orphanIntervals' = r.orphanIntervals
    /\ urlOk' = urlOk
    /\ wsThreats' = wsThreats

\* The call or event stays within the bounds of the model.
InBounds(r) ==
    /\ StaleCount(r.stale) <= MaxStale
    /\ r.orphanTimers <= MaxOrphanTimers
    /\ r.orphanIntervals <= MaxOrphanIntervals

\* The record of a call or event: its name, the close event's code, and what
\* the call did.  For disconnect(), rep: the call before it was disconnect()
\* too; cancel: a reconnect timer was pending when it was called.  For the
\* calls that take them, key: the topic; h: the handler; arg: the frame or the
\* payload.  afterUnsub: the call before it was an unsubscribe function; of
\* the same topic and handler, for on(); whose topic and handler are key and
\* h, for a message.  again: the unsubscribe function called had been called
\* before.  dup: on() found the handler registered for the topic.  prevArg:
\* for a message, what the event before it was, if that was a message too.
Op(name, code, r) ==
    [op |-> name, code |-> code, threw |-> r.threw, delay |-> r.delay,
     created |-> r.created, rep |-> FALSE, cancel |-> FALSE,
     calls |-> r.calls, written |-> r.written,
     key |-> "", h |-> "", arg |-> "", afterUnsub |-> FALSE, again |-> FALSE,
     dup |-> FALSE, prevArg |-> ""]

\* run: the reconnect timers set since the last open event or disconnect()
RunAfter(name, r) ==
    IF name \in {"open", "disconnect"} THEN 0
    ELSE IF r.delay # 0 THEN run + 1 ELSE run

\* manual: this.ws holds the socket created by a connect() that the caller
\* made right after a disconnect() that found a reconnect timer pending, and
\* that socket has neither opened nor closed
ManualAfter(name, r) ==
    CASE name = "connect" -> lastOp.op = "disconnect" /\ lastOp.cancel /\ r.created
      [] name = "disconnect" -> FALSE
      [] OTHER -> manual /\ r.ws \in {"CONNECTING", "FAILED"} /\ ~r.created

\* resumed: this.ws holds the socket created by a connect() that the caller
\* made when reconnection was exhausted (the counter at the maximum, no
\* reconnect timer pending, the socket of the last attempt closed and no
\* other socket left), and that socket has neither opened nor closed
ResumedAfter(name, r) ==
    CASE name = "connect" ->
             /\ reconnectAttempts = maxReconnectAttempts
             /\ reconnectTimer # "PENDING" /\ orphanTimers = 0
             /\ ws = "CLOSED"
             /\ stale = NoStale
             /\ r.created
      [] name = "disconnect" -> FALSE
      [] OTHER -> resumed /\ r.ws \in {"CONNECTING", "FAILED"} /\ ~r.created

\* the caller calls connect()
UserConnect ==
    LET r == connect(Cur)
    IN  /\ InBounds(r)
        /\ Commit(r)
        /\ lastOp' = Op("connect", 0, r)
        /\ run' = RunAfter("connect", r)
        /\ manual' = ManualAfter("connect", r)
        /\ resumed' = ResumedAfter("connect", r)
        /\ torn' = FALSE

\* the caller calls disconnect()
UserDisconnect ==
    LET r == disconnect(Cur)
    IN  /\ InBounds(r)
        /\ Commit(r)
        /\ lastOp' = [Op("disconnect", 0, r) EXCEPT
                        !.rep = (lastOp.op = "disconnect"),
                        !.cancel = (reconnectTimer = "PENDING")]
        /\ run' = RunAfter("disconnect", r)
        /\ manual' = ManualAfter("disconnect", r)
        /\ resumed' = ResumedAfter("disconnect", r)
        /\ torn' = TRUE

\* the caller calls onDisconnect(h)
OnDisconnect(h) ==
    LET r == onDisconnect(Cur, h)
    IN  /\ Commit(r)
        /\ lastOp' = Op("onDisconnect", 0, r)
        /\ UNCHANGED <<torn, run, manual, resumed>>

\* the caller calls the function onDisconnect(h) returned
UnsubDisconnect(h) ==
    /\ \E i \in 1..Len(disconnectionHandlers) : disconnectionHandlers[i] = h
    /\ LET r == onDisconnectFn(Cur, h)
       IN  /\ Commit(r)
           /\ lastOp' = Op("unsubDisconnect", 0, r)
    /\ UNCHANGED <<torn, run, manual, resumed>>

\* a reconnect timer fires, () => { this.connect() }: the timer whose handle
\* reconnectTimer holds, or one whose handle was overwritten
TimerFire(held) ==
    /\ IF held THEN reconnectTimer = "PENDING" ELSE orphanTimers > 0
    /\ LET c0 == IF held THEN [Cur EXCEPT !.reconnectTimer = "FIRED"]
                         ELSE [Cur EXCEPT !.orphanTimers = @ - 1]
           r == connect(c0)
       IN  /\ InBounds(r)
           /\ Commit(r)
           /\ lastOp' = Op("timer", 0, r)
           /\ run' = RunAfter("timer", r)
           /\ manual' = ManualAfter("timer", r)
           /\ resumed' = ResumedAfter("timer", r)
    /\ UNCHANGED torn

\* the open event of socket s
SocketOpen(s) ==
    /\ HasSocket(Cur, s)
    /\ StateOf(Cur, s) = "CONNECTING"
    /\ LET r == handleOpen(Move(Cur, s, "OPEN"))
       IN  /\ InBounds(r)
           /\ Commit(r)
           /\ lastOp' = Op("open", 0, r)
           /\ run' = RunAfter("open", r)
           /\ manual' = ManualAfter("open", r)
           /\ resumed' = ResumedAfter("open", r)
    /\ UNCHANGED torn

\* the error event of socket s: the browser fails the connection
SocketError(s) ==
    /\ HasSocket(Cur, s)
    /\ StateOf(Cur, s) \in {"CONNECTING", "OPEN", "CLOSING", "ABORTING"}
    /\ LET r == handleError(Move(Cur, s, "FAILED"))
       IN  /\ Commit(r)
           /\ lastOp' = Op("error", 0, r)
           /\ manual' = ManualAfter("error", r)
           /\ resumed' = ResumedAfter("error", r)
    /\ UNCHANGED <<torn, run>>

\* the close event of socket s with status code `code`: a failed connection
\* closes with 1006; a connection is failed before it is established or not
\* at all, so a connecting socket closes through its error event.
SocketClose(s, code) ==
    /\ HasSocket(Cur, s)
    /\ \/ StateOf(Cur, s) \in {"OPEN", "CLOSING"}
       \/ StateOf(Cur, s) = "FAILED" /\ code = 1006
    /\ LET r == handleClose(Move(Cur, s, "CLOSED"), code)
       IN  /\ InBounds(r)
           /\ Commit(r)
           /\ lastOp' = Op("close", code, r)
           /\ run' = RunAfter("close", r)
           /\ manual' = ManualAfter("close", r)
           /\ resumed' = ResumedAfter("close", r)
    /\ UNCHANGED torn

\* a heartbeat interval fires: the one pingTimer holds, or an overwritten one
PingTick(held) ==
    /\ IF held THEN pingTimer = "ACTIVE" ELSE orphanIntervals > 0
    /\ LET r == pingCallback(Cur)
       IN  /\ Commit(r)
           /\ lastOp' = Op("ping", 0, r)
    /\ UNCHANGED <<torn, run, manual, resumed>>

\* the caller calls send(message)
UserSend(message) ==
    LET r == send(Cur, message)
    IN  /\ Commit(r)
        /\ lastOp' = [Op("send", 0, r) EXCEPT !.arg = message]
        /\ UNCHANGED <<torn, run, manual, resumed>>

\* handler h is registered for topic k in the registry m; in handlers
RegisteredIn(m, k, h) == \E i \in 1..Len(MapGet(m, k)) : m[k][i] = h
Registered(k, h) == RegisteredIn(handlers, k, h)

\* the caller calls on(k, h)
On(k, h) ==
    LET r == on(Cur, k, h)
    IN  /\ Commit(r)
        /\ lastOp' = [Op("on", 0, r) EXCEPT
                        !.key = k, !.h = h, !.dup = Registered(k, h),
                        !.afterUnsub = (lastOp.op = "unsub" /\ lastOp.key = k /\ lastOp.h = h)]
        /\ UNCHANGED <<torn, run, manual, resumed>>

\* the caller calls a function on(k, h) returned: one not called before, of a
\* subscription that is registered, or (spent) the one called by the call
\* before this one or before the on(k, h) before this one
Unsub(k, h, spent) ==
    /\ IF spent
       THEN /\ lastOp.key = k
            /\ lastOp.h = h
            /\ lastOp.op = "unsub" \/ (lastOp.op = "on" /\ lastOp.afterUnsub)
       ELSE Registered(k, h)
    /\ LET r == unsubscribeFn(Cur, k, h)
       IN  /\ Commit(r)
           /\ lastOp' = [Op("unsub", 0, r) EXCEPT !.key = k, !.h = h, !.again = spent]
    /\ UNCHANGED <<torn, run, manual, resumed>>

\* the caller calls onConnect(h)
OnConnect(h) ==
    LET r == onConnect(Cur, h)
    IN  /\ Commit(r)
        /\ lastOp' = Op("onConnect", 0, r)
        /\ UNCHANGED <<torn, run, manual, resumed>>

\* the caller calls the function onConnect(h) returned
UnsubConnect(h) ==
    /\ \E i \in 1..Len(connectionHandlers) : connectionHandlers[i] = h
    /\ LET r == onConnectFn(Cur, h)
       IN  /\ Commit(r)
           /\ lastOp' = Op("unsubConnect", 0, r)
    /\ UNCHANGED <<torn, run, manual, resumed>>

\* the caller calls onError(h)
OnError(h) ==
    LET r == onError(Cur, h)
    IN  /\ Commit(r)
        /\ lastOp' = Op("onError", 0, r)
        /\ UNCHANGED <<torn, run, manual, resumed>>

\* the caller calls the function onError(h) returned
UnsubError(h) ==
    /\ \E i \in 1..Len(errorHandlers) : errorHandlers[i] = h
    /\ LET r == onErrorFn(Cur, h)
       IN  /\ Commit(r)
           /\ lastOp' = Op("unsubError", 0, r)
    /\ UNCHANGED <<torn, run, manual, resumed>>

\* the message event of socket s with the text `data`
SocketMessage(s, data) ==
    /\ HasSocket(Cur, s)
    /\ StateOf(Cur, s) \in {"OPEN", "CLOSING"}
    /\ LET r == handleMessage(Cur, data)
       IN  /\ Commit(r)
           /\ lastOp' = [Op("message", 0, r) EXCEPT
                           !.arg = IF IsJSON(data) THEN JSONparse(data).type ELSE "malformed",
                           !.prevArg = IF lastOp.op = "message" THEN lastOp.arg ELSE "",
                           !.afterUnsub = (lastOp.op = "unsub"),
                           !.key = IF lastOp.op = "unsub" THEN lastOp.key ELSE "",
                           !.h = IF lastOp.op = "unsub" THEN lastOp.h ELSE ""]
    /\ UNCHANGED <<torn, run, manual, resumed>>

\* the hook is mounted: the effect constructs the client and runs
Activate ==
    /\ adapter.phase = "idle"
    /\ LET r == [effect(Cur) EXCEPT !.adapter.phase = "active"]
       IN  /\ InBounds(r)
           /\ Commit(r)
           /\ lastOp' = Op("activate", 0, r)
           /\ run' = RunAfter("connect", r)
    /\ manual' = FALSE
    /\ resumed' = FALSE
    /\ torn' = FALSE

\* the hook is unmounted, or (rerun) channel changes and the effect runs
\* again with a new client: the cleanup of the effect runs
Deactivate(rerun) ==
    /\ adapter.phase = "active"
    /\ LET r == [cleanup(Cur) EXCEPT !.adapter.phase = IF rerun THEN "replaced" ELSE "cleaned"]
       IN  /\ InBounds(r)
           /\ Commit(r)
           /\ lastOp' = [Op("deactivate", 0, r) EXCEPT
                           !.cancel = (reconnectTimer = "PENDING")]
           /\ run' = RunAfter("disconnect", r)
    /\ manual' = FALSE
    /\ resumed' = FALSE
    /\ torn' = TRUE

(* ------------------------- the second client -------------------------- *)
\* a call or event of wsThreats that is shared with the first client: the
\* counter is one for both
Settle_SharedCounter(name, code, r) ==
    /\ InBounds(r)
    /\ wsThreats' = [r EXCEPT !.threw = FALSE, !.delay = 0, !.created = FALSE,
                              !.calls = <<>>, !.written = <<>>]
    /\ lastOp' = Op(name, code, r)
    /\ reconnectAttempts' = r.reconnectAttempts
    /\ UNCHANGED <<ws, reconnectTimer, pingTimer, disconnectionHandlers, handlers,
                   connectionHandlers, errorHandlers>>
    /\ UNCHANGED <<browserVars, adapterVars, torn, run, manual, resumed>>

\* A call or event of wsThreats has left it as r: every method reads and
\* writes the fields of this, and the class has no static field.
Settle(name, code, r) ==
    /\ InBounds(r)
    /\ wsThreats' = [r EXCEPT !.threw = FALSE, !.delay = 0, !.created = FALSE,
                              !.calls = <<>>, !.written = <<>>]
    /\ lastOp' = Op(name, code, r)
    /\ UNCHANGED <<clientVars, browserVars, adapterVars, torn, run, manual, resumed>>

\* wsThreats.connect(), while it holds no socket and no timer and the browser
\* holds no socket of it
ThreatsConnect ==
    /\ wsThreats.ws = NULL /\ wsThreats.reconnectTimer = NULL
    /\ wsThreats.stale = NoStale
    /\ Settle("wsThreats.connect", 0, connect(wsThreats))

\* wsThreats.disconnect(), while its socket is open and is the only one
ThreatsDisconnect ==
    /\ wsThreats.ws = "OPEN" /\ wsThreats.stale = NoStale
    /\ Settle("wsThreats.disconnect", 0, disconnect(wsThreats))

\* wsThreats.on(k, h) and the function it returns
ThreatsOn(k, h) ==
    Settle("wsThreats.on", 0, on(wsThreats, k, h))

ThreatsUnsub(k, h) ==
    /\ RegisteredIn(wsThreats.handlers, k, h)
    /\ Settle("wsThreats.unsub", 0, unsubscribeFn(wsThreats, k, h))

\* the events of the sockets and of the reconnect timers wsThreats made
ThreatsTimerFire ==
    /\ wsThreats.reconnectTimer = "PENDING"
    /\ Settle("wsThreats.timer", 0, connect([wsThreats EXCEPT !.reconnectTimer = "FIRED"]))

ThreatsSocketOpen(s) ==
    /\ HasSocket(wsThreats, s)
    /\ StateOf(wsThreats, s) = "CONNECTING"
    /\ Settle("wsThreats.open", 0, handleOpen(Move(wsThreats, s, "OPEN")))

ThreatsSocketClose(s, code) ==
    /\ HasSocket(wsThreats, s)
    /\ \/ StateOf(wsThreats, s) \in {"OPEN", "CLOSING"}
       \/ StateOf(wsThreats, s) = "FAILED" /\ code = 1006
    /\ Settle("wsThreats.close", code, handleClose(Move(wsThreats, s, "CLOSED"), code))

ThreatsSocketMessage(s, data) ==
    /\ HasSocket(wsThreats, s)
    /\ StateOf(wsThreats, s) \in {"OPEN", "CLOSING"}
    /\ Settle("wsThreats.message", 0, handleMessage(wsThreats, data))

\* The client as its constructor leaves it, and the history
InitClient ==
    /\ ws = NULL
    /\ reconnectAttempts = 0
    /\ reconnectTimer = NULL
    /\ pingTimer = NULL
    /\ disconnectionHandlers = <<>>
    /\ handlers = NoHandlers
    /\ connectionHandlers = <<>>
    /\ errorHandlers = <<>>
    /\ urlOk \in BOOLEAN
    /\ stale = NoStale
    /\ orphanTimers = 0
    /\ orphanIntervals = 0
    /\ lastOp = [op |-> "new", code |-> 0, threw |-> FALSE, delay |-> 0,
                 created |-> FALSE, rep |-> FALSE, cancel |-> FALSE,
                 calls |-> <<>>, written |-> <<>>,
                 key |-> "", h |-> "", arg |-> "", afterUnsub |-> FALSE, again |-> FALSE,
     dup |-> FALSE, prevArg |-> ""]
    /\ torn = FALSE
    /\ run = 0
    /\ manual = FALSE
    /\ resumed = FALSE

\* no hook: the client is one the module constructs and exports
NoAdapter ==
    [phase |-> "none", autoConnect |-> FALSE, isConnected |-> FALSE, lastMessage |-> NULL]

\* a client as its constructor leaves it, with nothing done yet
NewClient ==
    [ws |-> NULL, reconnectAttempts |-> 0, reconnectTimer |-> NULL, pingTimer |-> NULL,
     disconnectionHandlers |-> <<>>, handlers |-> NoHandlers,
     connectionHandlers |-> <<>>, errorHandlers |-> <<>>, adapter |-> NoAdapter,
     stale |-> NoStale, orphanTimers |-> 0, orphanIntervals |-> 0,
     threw |-> FALSE, delay |-> 0, created |-> FALSE, calls |-> <<>>,
     written |-> <<>>]

Init ==
    /\ InitClient
    /\ adapter = NoAdapter
    /\ wsThreats = NewClient

\* the hook before its effect runs, with either value of autoConnect
InitAdapter ==
    /\ InitClient
    /\ \E a \in BOOLEAN :
          adapter = [phase |-> "idle", autoConnect |-> a, isConnected |-> FALSE,
                     lastMessage |-> NULL]
    /\ wsThreats = NewClient

Next ==
    \/ UserConnect
    \/ UserDisconnect
    \/ \E h \in Handlers : OnDisconnect(h)
    \/ \E h \in Handlers : UnsubDisconnect(h)
    \/ \E held \in BOOLEAN : TimerFire(held)
    \/ \E s \in Sockets : SocketOpen(s)
    \/ \E s \in Sockets : SocketError(s)
    \/ \E s \in Sockets, code \in CloseCodes : SocketClose(s, code)
    \/ \E held \in BOOLEAN : PingTick(held)
    \/ \E message \in Payloads : UserSend(message)

Spec == Init /\ [][Next]_vars

\* The topic registry and the dispatch of messages on one transport
NextDispatch ==
    \/ ws = NULL /\ urlOk /\ UserConnect
    \/ \E s \in Sockets : SocketOpen(s)
    \/ \E s \in Sockets, data \in Frames : SocketMessage(s, data)
    \/ \E k \in Topics, h \in TopicHandlers : On(k, h)
    \/ \E k \in Topics, h \in TopicHandlers, spent \in BOOLEAN : Unsub(k, h, spent)

SpecDispatch == Init /\ [][NextDispatch]_vars

\* The three registries of connection events and the events of the
\* transports the client creates by itself
NextLifecycle ==
    \/ ws = NULL /\ reconnectTimer = NULL /\ UserConnect
    \/ TimerFire(TRUE)
    \/ \E s \in Sockets : SocketOpen(s)
    \/ \E s \in Sockets : SocketError(s)
    \/ \E s \in Sockets, code \in CloseCodes : SocketClose(s, code)
    \/ \E h \in Handlers : OnConnect(h)
    \/ \E h \in Handlers : UnsubConnect(h)
    \/ \E h \in Handlers : OnDisconnect(h)
    \/ \E h \in Handlers : UnsubDisconnect(h)
    \/ \E h \in Handlers : OnError(h)
    \/ \E h \in Handlers : UnsubError(h)

SpecLifecycle == Init /\ [][NextLifecycle]_vars

\* A client that the caller connects once and never disconnects, with
\* callbacks for its close events, and the events of its sockets and timers.
\* A timer that is set and not cleared fires: the event loop runs every timer
\* whose delay has passed.
NextLive ==
    \/ ws = NULL /\ reconnectTimer = NULL /\ UserConnect
    \/ TimerFire(TRUE)
    \/ \E s \in Sockets : SocketOpen(s)
    \/ \E s \in Sockets : SocketError(s)
    \/ \E s \in Sockets, code \in CloseCodes : SocketClose(s, code)
    \/ \E h \in Handlers : OnDisconnect(h)
    \/ \E h \in Handlers : UnsubDisconnect(h)

SpecLive == Init /\ [][NextLive]_vars /\ WF_vars(TimerFire(TRUE))

\* The frames a client made by the hook receives: the text of a message of
\* a type that only the wildcard matches, and a text that is not JSON
AdapterFrames == {JSONstringify("sitrep"), <<"text", "malformed">>}

\* The hook, the calls it passes on to its client, and the events of the
\* client's sockets and timers
NextAdapter ==
    \/ Activate
    \/ \E rerun \in BOOLEAN : Deactivate(rerun)
    \/ adapter.phase = "active" /\ UserConnect
    \/ adapter.phase = "active" /\ UserDisconnect
    \/ \E held \in BOOLEAN : TimerFire(held)
    \/ \E s \in Sockets : SocketOpen(s)
    \/ \E s \in Sockets : SocketError(s)
    \/ \E s \in Sockets, code \in CloseCodes : SocketClose(s, code)
    \/ \E s \in Sockets, data \in AdapterFrames : SocketMessage(s, data)

SpecAdapter == InitAdapter /\ [][NextAdapter]_vars

\* The hook, the handlers its caller registers through subscribe, and the
\* messages of the socket of its client
NextHookDispatch ==
    \/ Activate
    \/ adapter.phase = "active" /\ ws = NULL /\ urlOk /\ UserConnect
    \/ \E s \in Sockets : SocketOpen(s)
    \/ \E s \in Sockets, data \in Frames : SocketMessage(s, data)
    \/ adapter.phase = "active" /\ \E k \in Topics, h \in Handlers : On(k, h)
    \/ \E k \in Topics, h \in Handlers : Unsub(k, h, FALSE)

SpecHookDispatch == InitAdapter /\ [][NextHookDispatch]_vars

\* The topic registry with handlers that unsubscribe while a message is
\* being dispatched
NextReentrant ==
    \/ ws = NULL /\ urlOk /\ UserConnect
    \/ \E s \in Sockets : SocketOpen(s)
    \/ \E s \in Sockets, data \in Frames : SocketMessage(s, data)
    \/ \E k \in Topics, h \in ReentrantHandlers \cup {"logger"} : On(k, h)

SpecReentrant == Init /\ [][NextReentrant]_vars

\* Two of the clients the module exports, each with a handler of its own
\* for one topic; each is connected while it holds nothing and disconnected
\* while its socket is open and is the only one it made that has events
\* left; and the events of their sockets and timers
TwoClientsFrame == JSONstringify("threat_update")
TwoClientsCodes == {NormalClosure, 1006}
NextTwoClients ==
    \/ ws = NULL /\ reconnectTimer = NULL /\ stale = NoStale /\ UserConnect
    \/ ws = "OPEN" /\ stale = NoStale /\ UserDisconnect
    \/ On("threat_update", "quiet")
    \/ Registered("threat_update", "quiet") /\ Unsub("threat_update", "quiet", FALSE)
    \/ TimerFire(TRUE)
    \/ \E s \in Sockets : SocketOpen(s)
    \/ \E s \in Sockets, code \in TwoClientsCodes : SocketClose(s, code)
    \/ SocketMessage("current", TwoClientsFrame)
    \/ ThreatsConnect
    \/ ThreatsDisconnect
    \/ ThreatsOn("threat_update", "logger")
    \/ ThreatsUnsub("threat_update", "logger")
    \/ ThreatsTimerFire
    \/ \E s \in Sockets : ThreatsSocketOpen(s)
    \/ \E s \in Sockets, code \in TwoClientsCodes : ThreatsSocketClose(s, code)
    \/ ThreatsSocketMessage("current", TwoClientsFrame)

SpecTwoClients == Init /\ [][NextTwoClients]_vars

TypeOK ==
    /\ ws \in SocketStates \cup {NULL}
    /\ reconnectAttempts \in 0..maxReconnectAttempts
    /\ reconnectTimer \in {NULL, "PENDING", "FIRED"}
    /\ pingTimer \in {NULL, "ACTIVE"}
    /\ stale \in [PendingStates -> 0..MaxStale]
    /\ orphanTimers \in 0..MaxOrphanTimers
    /\ orphanIntervals \in 0..MaxOrphanIntervals
    /\ run \in 0..maxReconnectAttempts
    /\ manual \in BOOLEAN
    /\ resumed \in BOOLEAN
    /\ wsThreats.ws \in SocketStates \cup {NULL}
    /\ wsThreats.reconnectAttempts \in 0..maxReconnectAttempts
    /\ wsThreats.calls = <<>>
    /\ DOMAIN handlers \subseteq Topics
    /\ \A k \in DOMAIN handlers : \A i \in 1..Len(handlers[k]) :
          handlers[k][i] \in TopicHandlers \cup ReentrantHandlers \cup {AdapterHandler}
    /\ \A i \in 1..Len(connectionHandlers) : connectionHandlers[i] \in Handlers \cup {AdapterHandler}
    /\ \A i \in 1..Len(errorHandlers) : errorHandlers[i] \in Handlers \cup {AdapterHandler}
    /\ adapter.phase \in {"none", "idle", "active", "cleaned", "replaced"}
    /\ adapter.autoConnect \in BOOLEAN
    /\ adapter.isConnected \in BOOLEAN
    /\ adapter.lastMessage \in MessageTypes \cup {NULL}
    /\ Len(lastOp.written) <= 1

(* ------------------------- derived quantities -------------------------- *)
\* sockets that are connecting or open; each has its callbacks bound to the client
LiveTransports ==
    (IF ws \in {"CONNECTING", "OPEN"} THEN 1 ELSE 0) + stale["CONNECTING"] + stale["OPEN"]

\* reconnect timers that are set and have neither fired nor been cleared
PendingTimers ==
    (IF reconnectTimer = "PENDING" THEN 1 ELSE 0) + orphanTimers

\* the delays of the default policy, attempt 1 to attempt 5
BackoffDelays == <<2000, 4000, 8000, 16000, 32000>>

\* the step is the close event of the socket this.ws holds, a failed connection
CurrentAttemptFails ==
    lastOp'.op = "close" /\ ws = "FAILED" /\ ws' = "CLOSED"

(* ------------------------------- claims -------------------------------- *)

\* C1: after disconnect() and until the caller calls connect() again, no
\* reconnect timer is set, no reconnect timer fires and no transport is
\* created, whatever events of the closed transport are delivered.
C1_NoStaleCallbackAfterDisconnect ==
    [][(torn /\ torn') =>
          (lastOp'.delay = 0 /\ lastOp'.op # "timer" /\ ~lastOp'.created)]_vars

\* C2: in every reachable state the client has at most one live transport (a
\* socket connecting or open whose callbacks are bound to the client).
C2_AtMostOneLiveTransport == LiveTransports <= 1

\* C3: in every reachable state at most one reconnect timer is pending.
C3_AtMostOnePendingTimer == PendingTimers <= 1

\* C4: the k-th reconnect timer set since the last open event or disconnect()
\* has delay 2000 * 2^(k-1), that is 2000, 4000, 8000, 16000, 32000, and
\* there is no sixth.
C4_BackoffDelays ==
    /\ run <= Len(BackoffDelays)
    /\ lastOp.delay # 0 => (run >= 1 /\ lastOp.delay = BackoffDelays[run])

\* C4 witness: the fifth consecutive abnormal closure set the fifth timer.
C4_Witness ==
    lastOp.op = "close" /\ lastOp.code # NormalClosure /\ run = 5 /\ lastOp.delay = 32000

C6_NormalCloseNoReconnect ==
    [][(lastOp'.op = "close" /\ lastOp'.code = NormalClosure) =>
          /\ lastOp'.delay = 0
          /\ reconnectAttempts' = reconnectAttempts
          /\ reconnectTimer' = reconnectTimer
          /\ orphanTimers' = orphanTimers]_vars

\* C6 witness: a normal close was delivered with no throwing handler while the
\* counter was between 1 and 4, where an abnormal one would have set a timer.
C6_Witness ==
    /\ lastOp.op = "close" /\ lastOp.code = NormalClosure /\ ~lastOp.threw
    /\ reconnectAttempts \in 1..(maxReconnectAttempts - 1)

\* C7: every close event with a code other than 1000, delivered while the
\* counter is below the maximum, increments the counter and sets a reconnect
\* timer, whatever the disconnect handlers do.
C7_AbnormalCloseReconnects ==
    [][(lastOp'.op = "close" /\ lastOp'.code # NormalClosure
          /\ reconnectAttempts < maxReconnectAttempts) =>
          /\ reconnectAttempts' = reconnectAttempts + 1
          /\ lastOp'.delay # 0
          /\ reconnectTimer' = "PENDING"]_vars

\* C8: the attempt counter decreases only to zero and only in an open event or
\* a disconnect(); no failed attempt (connect() failing synchronously, an
\* error event, a close event) decreases it.
C8_ResetOnlyOnOpenOrDisconnect ==
    [][reconnectAttempts' < reconnectAttempts =>
          (reconnectAttempts' = 0 /\ lastOp'.op \in {"open", "disconnect"})]_vars

\* C8 witness: a connection attempt failed with the counter already at 2 or
\* more, and the counter is still there.
C8_Witness ==
    /\ lastOp.op = "close" /\ lastOp.code = 1006
    /\ reconnectAttempts >= 3

\* C9: disconnect() cancels the pending reconnect timer, and when the first
\* connect() after it fails abnormally the reconnect that follows is attempt 1
\* with the base delay.
C9_DisconnectRestartsCounting ==
    [][/\ (lastOp'.op = "disconnect" /\ reconnectTimer = "PENDING") =>
             (reconnectTimer' = NULL /\ orphanTimers' = orphanTimers)
       /\ (manual /\ CurrentAttemptFails /\ ~lastOp'.threw) =>
             (reconnectAttempts' = 1 /\ lastOp'.delay = reconnectDelay)]_vars

\* C10: a disconnect() that follows a disconnect() changes neither the client
\* nor the browser, a disconnect() on a client that never connected changes
\* nothing either, and neither throws.
C10_DisconnectIdempotent ==
    [][(lastOp'.op = "disconnect" /\ lastOp.op \in {"disconnect", "new"}) =>
          (UNCHANGED <<clientVars, browserVars>> /\ ~lastOp'.threw)]_vars

\* C10 witness: disconnect() was called twice in succession.
C10_Witness == lastOp.op = "disconnect" /\ lastOp.rep
\* C11: connect() called while the transport is open does nothing: it creates
\* no transport, sets no timer, calls no handler, does not throw, and every
\* field of the client, the sockets and the timers stay as they were.
C11_ConnectWhileOpenIsNoOp ==
    [][(lastOp'.op = "connect" /\ ws = "OPEN") =>
          /\ ~lastOp'.created
          /\ lastOp'.delay = 0
          /\ lastOp'.calls = <<>>
          /\ ~lastOp'.threw
          /\ UNCHANGED clientVars
          /\ UNCHANGED browserVars]_vars

\* connect() has been called on an open transport whose heartbeat is running
C11_Witness ==
    lastOp.op = "connect" /\ ws = "OPEN" /\ pingTimer = "ACTIVE"

\* C12: connect(), called by the caller or by a reconnect timer, never throws;
\* when the constructor throws, scheduleReconnect runs in the same call: below
\* the maximum the counter goes up by one and a timer is set, at the maximum
\* neither changes.
C12_ConnectContainsFailure ==
    [][lastOp'.op \in {"connect", "timer"} =>
          /\ ~lastOp'.threw
          /\ (~urlOk /\ ws # "OPEN") =>
                IF reconnectAttempts < maxReconnectAttempts
                THEN /\ reconnectAttempts' = reconnectAttempts + 1
                     /\ reconnectTimer' = "PENDING"
                     /\ lastOp'.delay # 0
                     /\ ~lastOp'.created
                ELSE /\ reconnectAttempts' = reconnectAttempts
                     /\ lastOp'.delay = 0
                     /\ ~lastOp'.created]_vars

\* the caller's connect() failed in the constructor and set the first timer
C12_Witness ==
    lastOp.op = "connect" /\ ~urlOk /\ reconnectAttempts = 1 /\ reconnectTimer = "PENDING"

\* C13: send() while the transport is not open does not throw, writes
\* nothing and changes nothing; and whatever a step writes to the transport is
\* the message of that very step, so nothing dropped earlier is written later.
C13_SendWhileNotOpenDrops ==
    [][/\ (lastOp'.op = "send" /\ ws # "OPEN") =>
             /\ ~lastOp'.threw
             /\ lastOp'.written = <<>>
             /\ UNCHANGED clientVars
             /\ UNCHANGED browserVars
       /\ lastOp'.written # <<>> =>
             /\ ws = "OPEN"
             /\ \/ lastOp'.op = "send" /\ lastOp'.written = <<JSONstringify(lastOp'.arg)>>
                \/ lastOp'.op = "ping" /\ lastOp'.written = <<JSONstringify("ping")>>]_vars

\* send() has been called while the transport was still connecting
C13_Witness ==
    lastOp.op = "send" /\ lastOp.arg = "message" /\ ws = "CONNECTING"

(* ------------------------- registries, dispatch ------------------------ *)
\* all the handlers of a registry, in its order
Tagged(registry, seq) == [i \in 1..Len(seq) |-> <<registry, seq[i]>>]

\* the handlers a message of the given type is for: those of its type in
\* subscription order, then those of the wildcard in subscription order
DispatchOrder(type) ==
    Tagged("type", MapGet(handlers, type)) \o Tagged(Wildcard, MapGet(handlers, Wildcard))

IsPrefix(a, b) == Len(a) <= Len(b) /\ \A i \in 1..Len(a) : a[i] = b[i]

\* C14: the handlers a decoded message invokes are invoked in this order: those
\* of the message's type in subscription order, then those of the wildcard in
\* subscription order, so a wildcard handler runs only after every handler of
\* the type; and on() puts a new handler after those subscribed before it.
C14_TypeBeforeWildcardInOrder ==
    [][/\ (lastOp'.op = "message" /\ lastOp'.arg # "malformed") =>
             /\ IsPrefix(lastOp'.calls, DispatchOrder(lastOp'.arg))
             /\ (\E i \in 1..Len(lastOp'.calls) : lastOp'.calls[i][1] = Wildcard) =>
                   IsPrefix(Tagged("type", MapGet(handlers, lastOp'.arg)), lastOp'.calls)
       /\ (lastOp'.op = "on" /\ ~Registered(lastOp'.key, lastOp'.h)) =>
             handlers'[lastOp'.key] = Append(MapGet(handlers, lastOp'.key), lastOp'.h)]_vars

\* a message invoked two handlers of its type and then two of the wildcard,
\* each group in its own subscription order
C14_Witness ==
    /\ lastOp.op = "message" /\ lastOp.arg = "threat_update"
    /\ lastOp.calls = << <<"type", "logger">>, <<"type", "quiet">>,
                         <<Wildcard, "quiet">>, <<Wildcard, "logger">> >>

\* C15: a decoded message, of a type other than the wildcard's name, invokes
\* every handler of its type and every handler of the wildcard, whether or not
\* one of them throws.
C15_EveryHandlerInvoked ==
    [][(lastOp'.op = "message" /\ lastOp'.arg \notin {"malformed", Wildcard}) =>
          lastOp'.calls = DispatchOrder(lastOp'.arg)]_vars

\* C16: an open, close or error event invokes every handler of its registry in
\* registration order, whether or not one of them throws, and no exception
\* leaves the event's callback.
C16_LifecycleHandlersIsolated ==
    [][lastOp'.op \in {"open", "close", "error"} =>
          /\ ~lastOp'.threw
          /\ lastOp'.calls =
                CASE lastOp'.op = "open" -> Tagged("connect", connectionHandlers)
                  [] lastOp'.op = "close" -> Tagged("disconnect", disconnectionHandlers)
                  [] lastOp'.op = "error" -> Tagged("error", errorHandlers)]_vars

\* C17: the unsubscribe function of a registered subscription removes its
\* handler from its topic and nothing else: the topic's other handlers stay, in
\* the order they had, the other topics and the three other registries stay,
\* and so does the rest of the client.
C17_UnsubscribeRemovesExactlyOne ==
    [][(lastOp'.op = "unsub" /\ Registered(lastOp'.key, lastOp'.h)) =>
          LET old == MapGet(handlers, lastOp'.key)
              new == MapGet(handlers', lastOp'.key)
          IN  /\ \A i \in 1..Len(new) : new[i] # lastOp'.h
              /\ Len(new) = Len(old) - 1
              /\ \A i \in 1..Len(old) : old[i] # lastOp'.h =>
                    \E a \in 1..Len(new) : new[a] = old[i]
              /\ \A i, j \in 1..Len(old) :
                    (i < j /\ old[i] # lastOp'.h /\ old[j] # lastOp'.h) =>
                       \E a, b \in 1..Len(new) : a < b /\ new[a] = old[i] /\ new[b] = old[j]
              /\ \A k \in Topics \ {lastOp'.key} :
                    /\ MapHas(handlers', k) = MapHas(handlers, k)
                    /\ MapGet(handlers', k) = MapGet(handlers, k)
              /\ UNCHANGED <<connectionHandlers, disconnectionHandlers, errorHandlers>>
              /\ UNCHANGED <<ws, reconnectAttempts, reconnectTimer, pingTimer>>
              /\ UNCHANGED browserVars]_vars

\* the handler in the middle of three was unsubscribed from a topic while the
\* wildcard had a handler
C17_Witness ==
    /\ lastOp.op = "unsub" /\ ~lastOp.again
    /\ lastOp.key = "threat_update" /\ lastOp.h = "quiet"
    /\ MapGet(handlers, "threat_update") = <<"thrower", "logger">>
    /\ MapGet(handlers, Wildcard) = <<"quiet">>

\* C18: a call of an unsubscribe function that has been called before changes
\* nothing, whatever was done between the calls.
C18_SecondCallIsNoOp ==
    [][(lastOp'.op = "unsub" /\ lastOp'.again) => UNCHANGED clientVars]_vars

\* C19: the unsubscribe function leaves its handler unregistered for its
\* topic, and a message invokes only handlers that are registered, for its
\* type or for the wildcard, when it is decoded.
C19_UnsubscribedNeverInvoked ==
    [][/\ lastOp'.op = "unsub" => ~RegisteredIn(handlers', lastOp'.key, lastOp'.h)
       /\ lastOp'.op = "message" =>
             \A i \in 1..Len(lastOp'.calls) :
                 IF lastOp'.calls[i][1] = "type"
                 THEN Registered(lastOp'.arg, lastOp'.calls[i][2])
                 ELSE Registered(Wildcard, lastOp'.calls[i][2])]_vars

\* a message of a type was decoded right after a handler was unsubscribed
\* from that type, and invoked only the handler that was left
C19_Witness ==
    /\ lastOp.op = "message" /\ lastOp.afterUnsub
    /\ lastOp.arg = "threat_update" /\ lastOp.key = "threat_update" /\ lastOp.h = "quiet"
    /\ lastOp.calls = << <<"type", "logger">> >>

\* C20: every topic that has an entry in the registry has a handler.
C20_NoEmptyEntry ==
    \A k \in DOMAIN handlers : Len(handlers[k]) > 0

\* the last handler of a topic was unsubscribed and the topic has no entry,
\* while the wildcard has one
C20_Witness ==
    /\ lastOp.op = "unsub" /\ lastOp.key = "threat_update"
    /\ ~MapHas(handlers, "threat_update")
    /\ MapHas(handlers, Wildcard)

\* the number of times handler h is invoked in calls
TimesInvoked(calls, h) == Len(SelectSeq(calls, LAMBDA x : x[2] = h))

\* C21: on() of a handler that is registered for the topic changes nothing, so
\* the topic keeps its handlers and their order; and a message invokes no
\* handler twice from the same topic.
C21_ResubscribeIsNoOp ==
    [][/\ (lastOp'.op = "on" /\ Registered(lastOp'.key, lastOp'.h)) =>
             /\ UNCHANGED clientVars
             /\ UNCHANGED browserVars
       /\ lastOp'.op = "message" =>
             \A i, j \in 1..Len(lastOp'.calls) :
                 i < j => lastOp'.calls[i] # lastOp'.calls[j]]_vars

\* the first of two handlers of a topic was subscribed again and is still
\* the first
C21_Witness ==
    /\ lastOp.op = "on" /\ lastOp.dup
    /\ lastOp.key = "threat_update" /\ lastOp.h = "quiet"
    /\ MapGet(handlers, "threat_update") = <<"quiet", "logger">>

\* C22: a decoded message whose handlers all return invokes each handler
\* once for each of the two topics (its type, the wildcard) the handler is
\* registered for, whatever the type of the message.
C22_EachHandlerOnce ==
    [][(/\ lastOp'.op = "message"
        /\ lastOp'.arg # "malformed"
        /\ ~ForEachThrows(MapGet(handlers, lastOp'.arg))
        /\ ~ForEachThrows(MapGet(handlers, Wildcard))) =>
          \A h \in TopicHandlers :
              TimesInvoked(lastOp'.calls, h) =
                  Cardinality({k \in {lastOp'.arg, Wildcard} : Registered(k, h)})]_vars

\* C23: a frame that is not JSON invokes no handler, throws nothing and
\* changes nothing; the frame after it, if it decodes, invokes its handlers
\* in dispatch order, the first of them at least.
C23_MalformedFrameDropped ==
    [][/\ (lastOp'.op = "message" /\ lastOp'.arg = "malformed") =>
             /\ lastOp'.calls = <<>>
             /\ ~lastOp'.threw
             /\ UNCHANGED clientVars
             /\ UNCHANGED browserVars
       /\ (lastOp'.op = "message" /\ lastOp'.prevArg = "malformed"
                                  /\ lastOp'.arg # "malformed") =>
             /\ ~lastOp'.threw
             /\ IsPrefix(lastOp'.calls, DispatchOrder(lastOp'.arg))
             /\ DispatchOrder(lastOp'.arg) # <<>> => lastOp'.calls # <<>>]_vars

\* a message was dispatched to its handler right after a frame that is not
\* JSON
C23_Witness ==
    /\ lastOp.op = "message" /\ lastOp.prevArg = "malformed"
    /\ lastOp.arg = "threat_update"
    /\ lastOp.calls = << <<"type", "quiet">> >>

\* C24: when an open event has been processed the counter is zero, the
\* heartbeat interval is set and every connect handler has been invoked.
C24_OpenResetsStartsNotifies ==
    [][lastOp'.op = "open" =>
          /\ reconnectAttempts' = 0
          /\ pingTimer' = "ACTIVE"
          /\ lastOp'.calls = Tagged("connect", connectionHandlers)]_vars

\* heartbeat intervals that are set and not cleared
RunningHeartbeats ==
    (IF pingTimer = "ACTIVE" THEN 1 ELSE 0) + orphanIntervals

\* C25: one heartbeat interval runs while the socket this.ws holds is open,
\* and none once this.ws is null or holds a closed socket.
C25_HeartbeatTracksOpen ==
    /\ ws = "OPEN" => RunningHeartbeats = 1
    /\ ws \in {NULL, "CLOSED"} => RunningHeartbeats = 0

C27_DispatchInArrivalOrder ==
    [][/\ (lastOp'.op = "message" /\ lastOp'.arg # "malformed") =>
             /\ IsPrefix(lastOp'.calls, DispatchOrder(lastOp'.arg))
             /\ DispatchOrder(lastOp'.arg) # <<>> =>
                   (lastOp'.calls # <<>> /\ lastOp'.calls[1] = DispatchOrder(lastOp'.arg)[1])
       /\ lastOp'.op # "message" =>
             \A i \in 1..Len(lastOp'.calls) : lastOp'.calls[i][1] \notin {"type", Wildcard}]_vars

\* a message for the wildcard handler only was followed by a message for a
\* handler of its type and the wildcard handler
C27_Witness ==
    /\ lastOp.op = "message" /\ lastOp.prevArg = "sitrep"
    /\ lastOp.arg = "threat_update"
    /\ lastOp.calls = << <<"type", "quiet">>, <<Wildcard, "logger">> >>

(* ------------------------- the useWebSocket hook ----------------------- *)
\* a callback of the hook is registered with the client
AdapterSubscribed ==
    \/ \E i \in 1..Len(connectionHandlers) : connectionHandlers[i] = AdapterHandler
    \/ \E i \in 1..Len(disconnectionHandlers) : disconnectionHandlers[i] = AdapterHandler
    \/ \E i \in 1..Len(errorHandlers) : errorHandlers[i] = AdapterHandler
    \/ \E k \in DOMAIN handlers : \E i \in 1..Len(handlers[k]) : handlers[k][i] = AdapterHandler

\* C28: the cleanup, in whatever state it finds the connection, leaves none
\* of the hook's four callbacks registered and the client as disconnect()
\* leaves it; from then on no event or call invokes a callback of the hook,
\* and isConnected and lastMessage keep their values.
C28_CleanupReleasesAll ==
    [][/\ lastOp'.op = "deactivate" =>
             /\ ~AdapterSubscribed'
             /\ ws' = NULL
             /\ reconnectTimer' = NULL
             /\ pingTimer' = NULL
             /\ reconnectAttempts' = 0
             /\ ~lastOp'.threw
       /\ adapter.phase \in {"cleaned", "replaced"} =>
             /\ \A i \in 1..Len(lastOp'.calls) : lastOp'.calls[i][2] # AdapterHandler
             /\ adapter'.isConnected = adapter.isConnected
             /\ adapter'.lastMessage = adapter.lastMessage]_vars

\* after the cleanup, the socket it closed delivered a message that
\* decodes, and no callback was invoked for it
C28_Witness ==
    /\ adapter.phase = "cleaned"
    /\ lastOp.op = "message" /\ lastOp.arg = "sitrep"
    /\ lastOp.calls = <<>>

\* C29: once the effect has run again with autoConnect set, and so made a
\* client that holds a socket or a reconnect timer from its first connect(),
\* the client of the run before, torn down by the cleanup, stays torn down: it
\* holds no socket that is connecting or open and no pending reconnect timer
\* in the next state if it holds none in this one.
C29_OldClientStaysTornDown ==
    [][(/\ adapter.phase = "replaced"
        /\ adapter.autoConnect
        /\ LiveTransports = 0
        /\ PendingTimers = 0) =>
          (LiveTransports' = 0 /\ PendingTimers' = 0)]_vars

\* the client holds no socket and no timer, and no socket or timer it ever
\* made is left with the browser
HoldsNothing ==
    /\ ws = NULL
    /\ reconnectTimer = NULL
    /\ pingTimer = NULL
    /\ stale = NoStale
    /\ orphanTimers = 0
    /\ orphanIntervals = 0

\* C30: the effect registers the four callbacks; without autoConnect it makes
\* no socket and sets no timer, and none is made or set before connect() is
\* called; with autoConnect it calls connect() once: one socket is made, or,
\* if the constructor throws, one reconnect timer is set.
C30_AutoConnectOnlyWhenEnabled ==
    [][/\ lastOp'.op = "activate" =>
             /\ connectionHandlers' = <<AdapterHandler>>
             /\ disconnectionHandlers' = <<AdapterHandler>>
             /\ errorHandlers' = <<AdapterHandler>>
             /\ handlers' = MapSet(NoHandlers, Wildcard, <<AdapterHandler>>)
             /\ ~adapter.autoConnect =>
                   (HoldsNothing' /\ ~lastOp'.created /\ lastOp'.delay = 0)
             /\ (adapter.autoConnect /\ urlOk) =>
                   /\ lastOp'.created
                   /\ ws' = "CONNECTING"
                   /\ stale' = NoStale
                   /\ reconnectTimer' = NULL
                   /\ reconnectAttempts' = 0
             /\ (adapter.autoConnect /\ ~urlOk) =>
                   /\ ~lastOp'.created
                   /\ ws' = NULL
                   /\ reconnectTimer' = "PENDING"
                   /\ orphanTimers' = 0
                   /\ reconnectAttempts' = 1
       /\ (adapter.phase = "active" /\ ~adapter.autoConnect /\ HoldsNothing
                                    /\ lastOp'.op # "connect") =>
             HoldsNothing']_vars

\* the effect has run without autoConnect: the callbacks are registered and
\* the client holds nothing
C30_Witness ==
    /\ lastOp.op = "activate" /\ ~adapter.autoConnect
    /\ adapter.phase = "active"
    /\ connectionHandlers = <<AdapterHandler>>
    /\ ws = NULL

(* ------------------------- counter, isConnected ------------------------ *)
\* C36: the counter is never below zero and never above the maximum.
C36_CounterInRange ==
    0 <= reconnectAttempts /\ reconnectAttempts <= maxReconnectAttempts

\* an abnormal close event found the counter at the maximum and left it there
C36_Witness ==
    /\ lastOp.op = "close" /\ lastOp.code = 1006 /\ lastOp.delay = 0 /\ ~lastOp.threw
    /\ reconnectAttempts = maxReconnectAttempts

\* what isConnected() returns in this state
IsConnectedNow == isConnected(Cur)

\* C39: isConnected() returns true in the states in which this.ws holds an
\* open socket and in no other: not in the first state, not after
\* disconnect(), not after the close event of the socket this.ws holds, and,
\* where it returns false, not before an open event; send() writes to the
\* socket if isConnected() returns true and writes nothing if not.
C39_IsConnectedIffOpen ==
    /\ [](IsConnectedNow = (ws = "OPEN"))
    /\ [](lastOp.op \in {"new", "disconnect"} => ~IsConnectedNow)
    /\ [][/\ (~IsConnectedNow /\ lastOp'.op # "open") => ~IsConnectedNow'
          /\ (lastOp'.op = "close" /\ ws' = "CLOSED" /\ ws # "CLOSED") => ~IsConnectedNow'
          /\ lastOp'.op = "send" =>
                (lastOp'.written = <<JSONstringify(lastOp'.arg)>>) = IsConnectedNow
          /\ lastOp'.op = "send" => (lastOp'.written = <<>>) = ~IsConnectedNow]_vars

\* send() has written to a socket that opened after a disconnect()
C39_Witness ==
    /\ lastOp.op = "send" /\ lastOp.written # <<>>
    /\ IsConnectedNow
    /\ stale["CLOSING"] = 1

\* C34: when the socket of a connect() that the caller made after
\* reconnection was exhausted closes without having opened, the close event
\* sets a reconnect timer.
C34_ExplicitConnectResumes ==
    [][(resumed /\ CurrentAttemptFails /\ ~lastOp'.threw) => lastOp'.delay # 0]_vars

\* an abnormal close event of the client's socket has been processed, and it
\* found the counter below the maximum: either it set a timer, or a
\* disconnect handler threw and the counter it left is the one it found
AbnormalCloseBelowMax ==
    /\ lastOp.op = "close" /\ lastOp.code # NormalClosure
    /\ \/ lastOp.delay # 0
       \/ lastOp.threw /\ reconnectAttempts < maxReconnectAttempts

\* C35: with no disconnect() and every set timer firing, an abnormal close
\* event that finds the counter below the maximum is followed by the firing
\* of a reconnect timer, which calls connect(); and when the socket that
\* this.ws holds opens, this.ws holds an open socket and the counter is zero.
C35_ReconnectEventually ==
    /\ AbnormalCloseBelowMax ~> (lastOp.op = "timer")
    /\ [][(lastOp'.op = "open" /\ ws = "CONNECTING" /\ stale = NoStale) =>
             (ws' = "OPEN" /\ reconnectAttempts' = 0)]_vars

(* --------------------- the hook's isConnected state --------------------- *)
\* C31: when the open socket of the hook's client closes with code 1000, no
\* reconnect timer is set and the counter stays; the hook's disconnect
\* callback is the one handler invoked, once, and isConnected goes from true
\* to false; and isConnected, once false, turns true only in an open event.
C31_NormalCloseClearsFlagOnce ==
    [][/\ (/\ lastOp'.op = "close" /\ lastOp'.code = NormalClosure
           /\ ws = "OPEN" /\ ws' = "CLOSED"
           /\ adapter.phase = "active" /\ adapter.isConnected) =>
             /\ lastOp'.delay = 0
             /\ reconnectTimer' = reconnectTimer
             /\ orphanTimers' = orphanTimers
             /\ reconnectAttempts' = reconnectAttempts
             /\ lastOp'.calls = << <<"disconnect", AdapterHandler>> >>
             /\ ~adapter'.isConnected
       /\ (~adapter.isConnected /\ adapter'.isConnected) => lastOp'.op = "open"]_vars

\* the open socket of the hook's client has closed with code 1000: the flag
\* is false, no timer is set and the counter is where the open event left it
C31_Witness ==
    /\ lastOp.op = "close" /\ lastOp.code = NormalClosure
    /\ lastOp.calls = << <<"disconnect", AdapterHandler>> >>
    /\ adapter.phase = "active" /\ ~adapter.isConnected
    /\ ws = "CLOSED" /\ reconnectTimer = NULL /\ reconnectAttempts = 0
    /\ stale = NoStale

\* C32: when the cleanup has run and the effect has made a new client, whose
\* socket cannot have opened yet, isConnected is false.
C32_FlagFollowsNewClient ==
    [][(lastOp'.op = "deactivate" /\ adapter'.phase = "replaced") =>
          ~adapter'.isConnected]_vars

\* C37: every decoded message of the socket of the hook's client invokes the
\* hook's wildcard callback, which stores it in lastMessage and passes it to
\* onMessage, whatever handlers subscribe has registered.
C37_LastMessageFollowsDispatch ==
    [][(lastOp'.op = "message" /\ lastOp'.arg # "malformed"
                               /\ adapter.phase = "active") =>
          /\ adapter'.lastMessage = lastOp'.arg
          /\ \E i \in 1..Len(lastOp'.calls) : lastOp'.calls[i][2] = AdapterHandler]_vars

(* ------------------ unsubscribing during the dispatch ------------------ *)
\* the handlers of seq without "logger" where "canceller" is before it
Remaining(seq) ==
    IF \E i, j \in 1..Len(seq) : i < j /\ seq[i] = "canceller" /\ seq[j] = "logger"
    THEN Remove(seq, "logger")
    ELSE seq

\* C38: a message of a type other than the wildcard's name, dispatched to
\* handlers that return, does not invoke a handler that another handler
\* unsubscribed before its turn, and invokes every other handler of its type
\* and of the wildcard once and in order, whether or not handlers unsubscribe
\* themselves while it is dispatched.
C38_UnsubscribeDuringDispatch ==
    [][(lastOp'.op = "message" /\ lastOp'.arg \notin {"malformed", Wildcard}) =>
          lastOp'.calls =
             Tagged("type", Remaining(MapGet(handlers, lastOp'.arg)))
                \o Tagged(Wildcard, Remaining(MapGet(handlers, Wildcard)))]_vars

\* a message was dispatched to a handler that unsubscribed itself, then one
\* that unsubscribed the handler after it: both were invoked, the third was
\* not, and the topic keeps the second only
C38_Witness ==
    /\ lastOp.op = "message" /\ lastOp.arg = "threat_update"
    /\ lastOp.calls = << <<"type", "once">>, <<"type", "canceller">> >>
    /\ handlers = MapSet(NoHandlers, "threat_update", <<"canceller">>)

(* ---------------------------- two clients ------------------------------ *)
\* the calls and events of wsThreats
ThreatsOps ==
    {"wsThreats.connect", "wsThreats.disconnect", "wsThreats.on", "wsThreats.unsub",
     "wsThreats.timer", "wsThreats.open", "wsThreats.close", "wsThreats.message"}

====
